---- MODULE Spec2Model ----
(***************************************************************************)
(* Recognition session of the home page (HomePage component): microphone   *)
(* acquisition, segmented recording, per-segment preprocessing, the        *)
(* single-flight recognition request, the match latch and the session      *)
(* countdown.  The component exists in several revisions in the            *)
(* repository; `variant` selects the revision a behaviour runs:            *)
(*   "latchRef"  src/unnamed/part_004        (resultFoundRef latch)         *)
(*   "stateRef"  src/src/app/page.tsx 371-830 (resultRef, guards read      *)
(*               the render's `result`)                                    *)
(*   "resultRef" src/src/app/page.tsx 1-370   (resultRef everywhere)       *)
(* Every await of the code is a separate step of the model; the code       *)
(* between two awaits is one atomic action (single-threaded event loop).   *)
(* The preprocessing of a segment (prober, normalizer, converter of        *)
(* audioUtils) reads nothing but the segment, so it is computed in the     *)
(* step that hands the segment over; SpecPipeline records its value in     *)
(* `handoff` for one session, Spec leaves it out.                          *)
(***************************************************************************)
EXTENDS Integers, FiniteSets, Sequences, TLC

\* ---- bounds of the model
MaxStarts == 2      \* invocations of handleStartRecording
MaxSegments == 2    \* dataavailable events delivered
MaxRequests == 2    \* recognition requests issued
MaxBytes == 1       \* size of a non-empty segment
MaxFrames == 2      \* length of a decoded audio buffer
MaxChannels == 2    \* channels of a decoded audio buffer
SampleUnit == 4     \* samples are the multiples of 1/SampleUnit
MaxSample == 8      \* up to MaxSample/SampleUnit in magnitude

\* ---- program constant
RECOGNITION_TIMEOUT_MS == 30000
VOLUME_BOOST_MUSIC == 25     \* VOLUME_BOOST.MUSIC = 2.5, in tenths
VOLUME_BOOST_HUMMING == 40   \* VOLUME_BOOST.HUMMING = 4.0, in tenths
DEFAULT_GAIN == 20           \* gainMultiplier = 2.0 by default, in tenths
WavHeaderBytes == 44         \* bytes before the samples of a WAVE blob

Ids == 1..MaxStarts          \* one id per handleStartRecording invocation
NoRef == 0                   \* a ref holding null

VARIABLES
  variant,            \* revision of the component
  isRecording,        \* useState
  isRecognizing,      \* useState
  result,             \* useState: TRUE when a SongResult is held
  error,              \* useState: which message is shown
  committedRecognizing, \* isRecognizing as of the last run of the sync effect
  resultFound,        \* resultFoundRef.current / resultRef.current # null
  isRecognizingRef,   \* isRecognizingRef.current
  timeoutRef,         \* timeoutRef.current: id of the timer or NoRef
  streamRef,          \* streamRef.current
  mediaRecorderRef,   \* mediaRecorderRef.current
  armed,              \* timers set and neither fired nor cleared
  acq,                \* getUserMedia call of each start
  track,              \* tracks of each acquired stream
  recorder,           \* MediaRecorder.state of each recorder
  flush,              \* stopped recorders that still owe their last dataavailable
  closureResult,      \* `result` as seen by the closures of each start
  nStarts,            \* handleStartRecording invocations so far
  nSegs,              \* dataavailable events so far
  nReqs,              \* fetch('/api/recognize') calls so far
  pre,                \* per start: segment callbacks awaiting preprocessing
  fetching,           \* per start: requests awaiting fetch
  parsing,            \* per start: requests awaiting response.json()
  recs,               \* per start: requests awaiting fetchRecommendations
  navigated,          \* router.push was called
  stoppedEarly,       \* recording was stopped by something else than the countdown since the last start
  handoff,            \* what preprocessing did in the step taken last, if it was a hand-over
  call,               \* a library function called on its own: its arguments, then what it did
  lastEvent           \* the step taken last

vars == <<variant, isRecording, isRecognizing, result, error, committedRecognizing,
          resultFound, isRecognizingRef, timeoutRef, streamRef, mediaRecorderRef,
          armed, acq, track, recorder, flush, closureResult, nStarts, nSegs, nReqs,
          pre, fetching, parsing, recs, navigated, stoppedEarly, handoff, call, lastEvent>>

Variants == {"latchRef", "stateRef", "resultRef"}

Errors == {"none", "mic", "nomatch", "recog", "nolink", "api"}

\* ---- preprocessing of a segment (audioUtils)

WAV == "audio/wav"
BlobTypes == {WAV, "audio/webm"}

Blob(t, n) == [type |-> t, size |-> n]

\* what the platform does for one segment: whether its bytes can be read
\* (arrayBuffer resolves), whether decodeAudioData resolves in the prober,
\* the normalizer and the converter, the decoded buffer, whether rendering
\* resolves
Envs == [readable : BOOLEAN,
         probeDecodes : BOOLEAN, normDecodes : BOOLEAN, convDecodes : BOOLEAN,
         renders : BOOLEAN,
         frames : 0..MaxFrames, channels : 1..MaxChannels]

\* value of a stage: the blob returned, how it was made ("same": the blob
\* passed in), the gain applied in tenths (0: no gain stage ran), and the
\* failure the stage met ("none", "read", "decode", "empty", "render")
Result(b, how, gain, failure) ==
  [blob |-> b, how |-> how, gain |-> gain, failure |-> failure]

\* canDecodeAudio
CanDecodeAudio(blob, env) ==
  IF blob.type = WAV THEN TRUE
  ELSE IF ~env.readable THEN FALSE
  ELSE IF blob.size = 0 THEN FALSE
  ELSE env.probeDecodes

\* the buffer allocated without room for the header
WavBlobWithoutHeader(frames, channels) == Blob(WAV, frames * channels * 2)

\* audioBufferToWavBlob: 16-bit samples after the header
AudioBufferToWavBlob(frames, channels) ==
  Blob(WAV, WavHeaderBytes + frames * channels * 2)

\* the header built but not put in front of the bytes
MinimalWavWithoutHeader(n) == Blob(WAV, n)

\* createMinimalWav: the raw bytes after a header
CreateMinimalWav(n) == Blob(WAV, WavHeaderBytes + n)

\* the normalizer without its shortcut for WAVE-typed blobs
NormalizeEveryType(blob, gain, forHumming, env) ==
  IF blob.size = 0 THEN Result(blob, "same", 0, "none")
  ELSE IF ~env.readable THEN Result(blob, "same", 0, "read")
  ELSE IF ~env.normDecodes THEN Result(blob, "same", 0, "decode")
  ELSE IF env.frames = 0 THEN Result(blob, "same", 0, "empty")
  ELSE IF ~env.renders THEN Result(blob, "same", 0, "render")
  ELSE Result(AudioBufferToWavBlob(env.frames, env.channels), "rendered", gain, "none")

\* normalizeAudioVolume
NormalizeAudioVolume(blob, gain, forHumming, env) ==
  IF blob.size = 0 THEN Result(blob, "same", 0, "none")
  ELSE IF blob.type = WAV THEN Result(blob, "same", 0, "none")
  ELSE IF ~env.readable THEN Result(blob, "same", 0, "read")
  ELSE IF ~env.normDecodes THEN Result(blob, "same", 0, "decode")
  ELSE IF env.frames = 0 THEN Result(blob, "same", 0, "empty")
  ELSE IF ~env.renders THEN Result(blob, "same", 0, "render")
  ELSE Result(AudioBufferToWavBlob(env.frames, env.channels), "rendered", gain, "none")

\* the converter giving the blob back when decoding fails
ConvertWithoutWrapping(blob, env) ==
  IF blob.type = WAV THEN Result(blob, "same", 0, "none")
  ELSE IF ~env.readable THEN Result(blob, "same", 0, "read")
  ELSE IF blob.size = 0 THEN Result(blob, "same", 0, "empty")
  ELSE IF env.convDecodes
  THEN Result(AudioBufferToWavBlob(env.frames, env.channels), "reencoded", 0, "none")
  ELSE Result(blob, "same", 0, "decode")

\* convertToWav
ConvertToWav(blob, env) ==
  IF blob.type = WAV THEN Result(blob, "same", 0, "none")
  ELSE IF ~env.readable THEN Result(blob, "same", 0, "read")
  ELSE IF blob.size = 0 THEN Result(blob, "same", 0, "empty")
  ELSE IF env.convDecodes
  THEN Result(AudioBufferToWavBlob(env.frames, env.channels), "reencoded", 0, "none")
  ELSE Result(CreateMinimalWav(blob.size), "wrapped", 0, "decode")

\* ondataavailable from canDecodeAudio to processedBlob.  No stage rejects,
\* so the two catch blocks of the callback are never entered.
Preprocess(blob, env) ==
  LET can == CanDecodeAudio(blob, env)
  IN [in |-> blob,
      canDecode |-> can,
      stage |-> IF can THEN "normalizer" ELSE "converter",
      out |-> IF can
              THEN NormalizeAudioVolume(blob, VOLUME_BOOST_MUSIC, FALSE, env)
              ELSE ConvertToWav(blob, env)]

\* what preprocessing can make of a non-empty segment
PreprocessOutcomes ==
  {Preprocess(Blob(t, n), env) : t \in BlobTypes, n \in 1..MaxBytes, env \in Envs}

\* no hand-over in the step taken last
NoHandoff ==
  [in |-> Blob(WAV, 0), canDecode |-> FALSE, stage |-> "none",
   out |-> Result(Blob(WAV, 0), "same", 0, "none")]

\* ---- library functions called on their own

\* no library function is under examination
NoCall == [fn |-> "none", phase |-> "none"]

\* a call about to be made, and the same call once it has settled
Pending(fn, args) == [fn |-> fn, phase |-> "pending", args |-> args]
Settled(c, out) == [fn |-> c.fn, phase |-> "done", args |-> c.args, out |-> out]

\* how a block of an async function ends: with a value or with an exception,
\* after opening `opened` AudioContexts, calling close() `closes` times, and
\* with decodeAudioData not called ("none"), resolved ("ok") or rejected
\* ("failed")
Returned(v, opened, closes, decode) ==
  [threw |-> FALSE, value |-> v, opened |-> opened, closes |-> closes,
   decode |-> decode]
Thrown(failure, opened, closes, decode) ==
  [threw |-> TRUE, failure |-> failure, opened |-> opened, closes |-> closes,
   decode |-> decode]

\* the blobs a library function is called with
Blobs == {Blob(t, n) : t \in BlobTypes, n \in 0..MaxBytes}

\* canDecodeAudio, the try block
CanDecodeAudioTry(blob, env) ==
  IF blob.type = WAV THEN Returned(TRUE, 0, 0, "none")
  ELSE IF ~env.readable THEN Thrown("read", 1, 0, "none")
  ELSE IF blob.size = 0 THEN Returned(FALSE, 1, 1, "none")
  ELSE IF ~env.probeDecodes THEN Thrown("decode", 1, 0, "failed")
  ELSE Returned(TRUE, 1, 1, "ok")

\* canDecodeAudio without its catch clause
CanDecodeAudioUncaught(blob, env) == CanDecodeAudioTry(blob, env)

\* canDecodeAudio, the whole call: `catch { return false; }`
CanDecodeAudioCall(blob, env) ==
  LET b == CanDecodeAudioTry(blob, env)
  IN IF b.threw THEN Returned(FALSE, b.opened, b.closes, b.decode) ELSE b

CanDecodeAudioCalls ==
  {Pending("canDecodeAudio", [blob |-> b, env |-> e]) : b \in Blobs, e \in Envs}

\* normalizeAudioVolume as the earlier revision had it: no return for a
\* WAVE-typed blob ahead of the decode
NormalizeAudioVolumeTryEveryType(blob, gain, forHumming, env) ==
  IF blob.size = 0 THEN Returned(Result(blob, "same", 0, "none"), 0, 0, "none")
  ELSE IF ~env.readable THEN Thrown("read", 1, 0, "none")
  ELSE IF ~env.normDecodes
    THEN Returned(Result(blob, "same", 0, "decode"), 1, 1, "failed")
  ELSE IF env.frames = 0
    THEN Returned(Result(blob, "same", 0, "empty"), 1, 1, "ok")
  ELSE IF ~env.renders THEN Thrown("render", 1, 0, "ok")
  ELSE Returned(Result(AudioBufferToWavBlob(env.frames, env.channels),
                       "rendered", gain, "none"), 1, 1, "ok")

\* normalizeAudioVolume, the try block
NormalizeAudioVolumeTry(blob, gain, forHumming, env) ==
  IF blob.size = 0 THEN Returned(Result(blob, "same", 0, "none"), 0, 0, "none")
  ELSE IF blob.type = WAV
    THEN Returned(Result(blob, "same", 0, "none"), 0, 0, "none")
  ELSE IF ~env.readable THEN Thrown("read", 1, 0, "none")
  ELSE IF ~env.normDecodes
    THEN Returned(Result(blob, "same", 0, "decode"), 1, 1, "failed")
  ELSE IF env.frames = 0
    THEN Returned(Result(blob, "same", 0, "empty"), 1, 1, "ok")
  ELSE IF ~env.renders THEN Thrown("render", 1, 0, "ok")
  ELSE Returned(Result(AudioBufferToWavBlob(env.frames, env.channels),
                       "rendered", gain, "none"), 1, 1, "ok")

\* normalizeAudioVolume with a catch clause that only returns the blob
NormalizeAudioVolumeLeaky(blob, gain, forHumming, env) ==
  LET b == NormalizeAudioVolumeTry(blob, gain, forHumming, env)
  IN IF b.threw
     THEN Returned(Result(blob, "same", 0, b.failure), b.opened, b.closes, b.decode)
     ELSE b

\* normalizeAudioVolume without its catch clause
NormalizeAudioVolumeUncaught(blob, gain, forHumming, env) ==
  NormalizeAudioVolumeTry(blob, gain, forHumming, env)

\* normalizeAudioVolume, the whole call: the catch clause closes the context
\* if there is one that is not closed, and returns the blob passed in
NormalizeAudioVolumeCall(blob, gain, forHumming, env) ==
  LET b == NormalizeAudioVolumeTry(blob, gain, forHumming, env)
  IN IF b.threw
     THEN Returned(Result(blob, "same", 0, b.failure), b.opened,
                   IF b.closes < b.opened THEN b.closes + 1 ELSE b.closes,
                   b.decode)
     ELSE b

\* no offline graph was built
NoGraph == [built |-> FALSE]

\* the humming graph with the shelving filters ahead of the gain node
RenderGraphFiltersFirst(gain, forHumming) ==
  IF forHumming
  THEN [built |-> TRUE, gain |-> gain,
        filters |-> {[node |-> "lowShelf", type |-> "lowshelf",
                      frequency |-> 1000, gain |-> 6],
                     [node |-> "highShelf", type |-> "highshelf",
                      frequency |-> 3000, gain |-> -3]},
        connects |-> {<<"source", "lowShelf">>, <<"lowShelf", "highShelf">>,
                      <<"highShelf", "gainNode">>, <<"gainNode", "destination">>}]
  ELSE [built |-> TRUE, gain |-> gain, filters |-> {},
        connects |-> {<<"source", "gainNode">>, <<"gainNode", "destination">>}]

\* normalizeAudioVolume, the offline graph: gainNode.gain.value, the biquad
\* filters created, and the connect() calls as <<from, to>>
RenderGraph(gain, forHumming) ==
  IF forHumming
  THEN [built |-> TRUE, gain |-> gain,
        filters |-> {[node |-> "lowShelf", type |-> "lowshelf",
                      frequency |-> 1000, gain |-> 6],
                     [node |-> "highShelf", type |-> "highshelf",
                      frequency |-> 3000, gain |-> -3]},
        connects |-> {<<"source", "gainNode">>, <<"gainNode", "lowShelf">>,
                      <<"lowShelf", "highShelf">>, <<"highShelf", "destination">>}]
  ELSE [built |-> TRUE, gain |-> gain, filters |-> {},
        connects |-> {<<"source", "gainNode">>, <<"gainNode", "destination">>}]

\* the graph a call of normalizeAudioVolume builds: none unless the call
\* gets past the check of the decoded buffer
NormalizeAudioVolumeGraph(blob, gain, forHumming, env) ==
  LET b == NormalizeAudioVolumeTry(blob, gain, forHumming, env)
  IN IF b.opened = 1 /\ b.decode = "ok" /\ env.frames > 0
     THEN RenderGraph(gain, forHumming)
     ELSE NoGraph

\* a settled call of normalizeAudioVolume, with the graph it built
SettledWithGraph(c, out, graph) ==
  [fn |-> c.fn, phase |-> "done", args |-> c.args, out |-> out, graph |-> graph]

\* the nodes a signal passes from node n to the destination, following the
\* connections; at most `fuel` of them
RECURSIVE SignalPath(_, _, _)
SignalPath(n, connects, fuel) ==
  LET next == {e[2] : e \in {c \in connects : c[1] = n}}
  IN IF fuel = 0 \/ next = {} THEN <<n>>
     ELSE <<n>> \o SignalPath(CHOOSE m \in next : TRUE, connects, fuel - 1)

\* gainMultiplier: the default and the two of VOLUME_BOOST, in tenths
Gains == {DEFAULT_GAIN, VOLUME_BOOST_MUSIC, VOLUME_BOOST_HUMMING}

NormalizeAudioVolumeCalls ==
  {Pending("normalizeAudioVolume",
           [blob |-> b, gain |-> g, forHumming |-> h, env |-> e]) :
     b \in Blobs, g \in Gains, h \in BOOLEAN, e \in Envs}

\* a 44-byte header whose data chunk length is the file length
MinimalWavHeaderFileLength(n) ==
  (0 :> "RIFF") @@ (4 :> 36 + n) @@ (8 :> "WAVE") @@ (12 :> "fmt ") @@
  (16 :> 16) @@ (20 :> 1) @@ (22 :> 1) @@ (24 :> 44100) @@
  (28 :> (44100 * 1 * 16) \div 8) @@ (32 :> (1 * 16) \div 8) @@
  (34 :> 16) @@ (36 :> "data") @@ (40 :> 36 + n)

\* createMinimalWav, the header: byte offset of each write |-> value written
MinimalWavHeader(n) ==
  (0 :> "RIFF") @@ (4 :> 36 + n) @@ (8 :> "WAVE") @@ (12 :> "fmt ") @@
  (16 :> 16) @@ (20 :> 1) @@ (22 :> 1) @@ (24 :> 44100) @@
  (28 :> (44100 * 1 * 16) \div 8) @@ (32 :> (1 * 16) \div 8) @@
  (34 :> 16) @@ (36 :> "data") @@ (40 :> n)

\* createMinimalWav, the bytes of the blob it returns: the header, then the
\* n bytes passed in, copied from offset header.byteLength on
MinimalWavFile(n) ==
  [made |-> "createMinimalWav", header |-> MinimalWavHeader(n),
   payload |-> [of |-> "rawAudioData", at |-> WavHeaderBytes, bytes |-> n]]

\* bytes of a blob made by audioBufferToWavBlob from a decoded buffer
EncodedFile(frames, channels) ==
  [made |-> "audioBufferToWavBlob", frames |-> frames, channels |-> channels]

\* no blob was made
NoFile == [made |-> "nothing"]

\* a return of convertToWav: the value, and the bytes of the blob if the call
\* made one
ConvertReturned(v, file, opened, closes, decode) ==
  [threw |-> FALSE, value |-> v, file |-> file, opened |-> opened,
   closes |-> closes, decode |-> decode]

\* convertToWav, the inner try block
ConvertToWavInnerTry(blob, env) ==
  IF ~env.readable THEN Thrown("read", 1, 0, "none")
  ELSE IF blob.size = 0 THEN Thrown("empty", 1, 0, "none")
  ELSE IF ~env.convDecodes THEN Thrown("decode", 1, 0, "failed")
  ELSE ConvertReturned(Result(AudioBufferToWavBlob(env.frames, env.channels),
                              "reencoded", 0, "none"),
                       EncodedFile(env.frames, env.channels), 1, 1, "ok")

\* convertToWav, the inner catch clause, entered with the exception b
ConvertToWavInnerCatch(blob, env, b) ==
  IF ~env.readable THEN b
  ELSE IF blob.size > 0
    THEN ConvertReturned(Result(CreateMinimalWav(blob.size), "wrapped", 0, b.failure),
                         MinimalWavFile(blob.size), b.opened, b.closes, b.decode)
  ELSE b

\* convertToWav decoding whatever the type of the blob
ConvertToWavTryEveryType(blob, env) ==
  LET b == ConvertToWavInnerTry(blob, env)
  IN IF b.threw THEN ConvertToWavInnerCatch(blob, env, b) ELSE b

\* convertToWav, the outer try block
ConvertToWavTry(blob, env) ==
  IF blob.type = WAV
  THEN ConvertReturned(Result(blob, "same", 0, "none"), NoFile, 0, 0, "none")
  ELSE LET b == ConvertToWavInnerTry(blob, env)
       IN IF b.threw THEN ConvertToWavInnerCatch(blob, env, b) ELSE b

\* convertToWav, the whole call: `catch { return audioBlob; }`
ConvertToWavCall(blob, env) ==
  LET b == ConvertToWavTry(blob, env)
  IN IF b.threw
     THEN ConvertReturned(Result(blob, "same", 0, b.failure), NoFile,
                          b.opened, b.closes, b.decode)
     ELSE b

ConvertToWavCalls ==
  {Pending("convertToWav", [blob |-> b, env |-> e]) : b \in Blobs, e \in Envs}

\* an AudioBuffer: length, numberOfChannels, sampleRate
SampleRates == {8000, 44100, 48000}
AudioBuffers ==
  [frames : 0..MaxFrames, channels : 1..MaxChannels, sampleRate : SampleRates]

\* audioBufferToWavBlob, the header: the setUint32 and setUint16 calls in
\* the order made, each <<bytes written, value>>; a 16-bit write keeps the
\* low 16 bits of its value
EncoderHeaderWrites(buf) ==
  LET length == buf.frames * buf.channels * 2
  IN << <<4, "RIFF">>, <<4, 36 + length>>, <<4, "WAVE">>, <<4, "fmt ">>,
        <<4, 16>>, <<2, 1>>, <<2, buf.channels % 65536>>, <<4, buf.sampleRate>>,
        <<4, buf.sampleRate * buf.channels * 2>>,
        <<2, (buf.channels * 2) % 65536>>, <<2, 16>>, <<4, "data">>,
        <<4, length>> >>

\* value of pos after the first i writes: each adds its width
RECURSIVE PosAfter(_, _)
PosAfter(writes, i) ==
  IF i = 0 THEN 0 ELSE PosAfter(writes, i - 1) + writes[i][1]

\* byte offset of each write |-> value written
Laid(writes) ==
  LET at(i) == PosAfter(writes, i - 1)
  IN [p \in {at(i) : i \in 1..Len(writes)} |->
        writes[CHOOSE i \in 1..Len(writes) : at(i) = p][2]]

\* the samples written channel after channel instead of frame after frame
PlanarSamples(buf, pos, byteLength) ==
  {[at |-> pos + 2 * (c * buf.frames + f), frame |-> f, channel |-> c] :
     f \in 0..(buf.frames - 1), c \in 0..(buf.channels - 1)}

\* audioBufferToWavBlob, the loop `while (pos < buffer.byteLength)`: one
\* setInt16 per channel at pos, pos + 2, ..., then offset++
RECURSIVE WhilePosBelow(_, _, _, _)
WhilePosBelow(buf, pos, offset, byteLength) ==
  IF pos < byteLength
  THEN {[at |-> pos + 2 * i, frame |-> offset, channel |-> i] :
          i \in 0..(buf.channels - 1)}
       \cup WhilePosBelow(buf, pos + 2 * buf.channels, offset + 1, byteLength)
  ELSE {}

\* which sample is written at which byte offset
InterleavedSamples(buf, pos, byteLength) == WhilePosBelow(buf, pos, 0, byteLength)

\* audioBufferToWavBlob, the bytes of the blob it returns
AudioBufferToWavFile(buf) ==
  LET writes == EncoderHeaderWrites(buf)
      blob == AudioBufferToWavBlob(buf.frames, buf.channels)
  IN [made |-> "audioBufferToWavBlob", blob |-> blob,
      header |-> Laid(writes),
      samples |-> InterleavedSamples(buf, PosAfter(writes, Len(writes)), blob.size)]

\* a Float32 sample: NaN, or num/SampleUnit
Samples ==
  {[nan |-> FALSE, num |-> k] : k \in -MaxSample..MaxSample}
    \cup {[nan |-> TRUE, num |-> 0]}

Min(a, b) == IF a < b THEN a ELSE b
Max(a, b) == IF a > b THEN a ELSE b

\* the sample left as it is
KeepSample(x) == x

\* Math.max(-1, Math.min(1, sample)): NaN stays NaN
ClampSample(x) ==
  IF x.nan THEN x
  ELSE [nan |-> FALSE, num |-> Max(-SampleUnit, Min(SampleUnit, x.num))]

\* sample < 0 ? sample * 0x8000 : sample * 0x7fff: NaN < 0 is false and
\* NaN * 0x7fff is NaN
ScaleSample(x) ==
  IF x.nan THEN x
  ELSE [nan |-> FALSE,
        num |-> IF x.num < 0 THEN x.num * 32768 ELSE x.num * 32767]

\* view.setInt16(pos, sample, true): NaN is written as 0, any other number
\* is truncated towards zero and reduced modulo 2^16 to -32768..32767
SetInt16(x) ==
  IF x.nan THEN 0
  ELSE LET t == IF x.num < 0 THEN -((-x.num) \div SampleUnit)
                ELSE x.num \div SampleUnit
       IN ((t + 32768) % 65536) - 32768

\* the 16-bit value written for a sample
EncodeSample(x) == SetInt16(ScaleSample(ClampSample(x)))

\* two samples of a buffer being encoded
EncodeSampleCalls ==
  {Pending("encodeSamples", [x |-> a, y |-> b]) : a \in Samples, b \in Samples}

AudioBufferToWavBlobCalls ==
  {Pending("audioBufferToWavBlob", [buffer |-> b]) : b \in AudioBuffers}

\* getSupportedAudioMimeType, the list it tries, in order
MimeTypes ==
  <<"audio/webm;codecs=opus", "audio/webm", "audio/ogg;codecs=opus",
    "audio/mp4", WAV>>

\* what MediaRecorder.isTypeSupported may accept: those, and a type that is
\* not on the list
KnownMimeTypes == {MimeTypes[i] : i \in 1..Len(MimeTypes)} \cup {"audio/x-matroska"}

Undefined == "undefined"

\* the loop of getSupportedAudioMimeType from the i-th entry on
RECURSIVE FirstSupportedFrom(_, _)
FirstSupportedFrom(i, supported) ==
  IF i > Len(MimeTypes) THEN Undefined
  ELSE IF MimeTypes[i] \in supported THEN MimeTypes[i]
  ELSE FirstSupportedFrom(i + 1, supported)

\* getSupportedAudioMimeType
GetSupportedAudioMimeType(supported) == FirstSupportedFrom(1, supported)

\* the type chosen from the list alone, as the older page does
MimeTypeFromListAlone(supported) == GetSupportedAudioMimeType(supported)

\* handleStartRecording, the choice of mimeType
RecorderMimeType(supported) ==
  IF WAV \in supported THEN WAV ELSE GetSupportedAudioMimeType(supported)

\* handleStartRecording, mediaRecorderOptions
MediaRecorderOptions(supported) ==
  LET mimeType == RecorderMimeType(supported)
  IN IF mimeType # Undefined THEN [given |-> TRUE, mimeType |-> mimeType]
     ELSE [given |-> FALSE, mimeType |-> Undefined]

\* new MediaRecorder(stream, options): a mimeType that is not supported
\* throws; without options the recorder uses the browser's default type
NewMediaRecorder(supported, options) ==
  IF options.given /\ options.mimeType \notin supported
  THEN [created |-> FALSE, options |-> options, mimeType |-> Undefined]
  ELSE [created |-> TRUE, options |-> options,
        mimeType |-> IF options.given THEN options.mimeType ELSE "default"]

MediaRecorderCalls ==
  {Pending("new MediaRecorder", [supported |-> S]) : S \in SUBSET KnownMimeTypes}

\* ---- the recognition route (POST /api/recognize)

\* the revisions of the route: src/src/app/api/recognize/route.ts, and the
\* two of src/unnamed that answer through an `error` field of the result
RouteRevisions == {"route.ts", "part_000", "part_001"}

\* what the recognition service does with a sample: a recorded-music match,
\* a humming match only, no match (status code not 0), a failure of the call
\* or of its JSON, or no call because the credentials are missing
ServiceOutcomes == {"music", "humming", "nomatch", "throws", "unconfigured"}

\* the request: whether it carries a `sample` file, and the class of its
\* length for validateAudioBuffer
Requests ==
  [file : BOOLEAN, length : {"tooSmall", "valid", "tooLarge"},
   service : ServiceOutcomes]

\* validateAudioBuffer
ValidateAudioBuffer(length) == length = "valid"

\* recognizeWithACRCloud: a song, an error result, null, or an exception
RecognizeWithACRCloud(rev, service) ==
  IF rev = "route.ts"
  THEN CASE service = "unconfigured" -> "throws"
         [] service = "throws" -> "throws"
         [] service \in {"music", "humming"} -> "song"
         [] OTHER -> "null"
  ELSE CASE service = "unconfigured" -> "error"
         [] service = "throws" -> "error"
         [] service = "music" -> "song"
         [] service = "humming" -> "error"
         [] OTHER -> "null"

\* the response: status, and what the JSON body carries ("none": no body)
Response(status, body) == [status |-> status, body |-> body]

\* POST of the route
RoutePOST(rev, req) ==
  IF ~req.file THEN Response(400, "error")
  ELSE IF ~ValidateAudioBuffer(req.length) THEN Response(400, "error")
  ELSE LET res == RecognizeWithACRCloud(rev, req.service)
       IN CASE res = "throws" -> Response(500, "error")
            [] res = "song" -> Response(200, "title")
            [] res = "error" -> Response(404, "error")
            [] OTHER -> IF rev = "part_000" THEN Response(204, "none")
                        ELSE Response(404, "error")

\* recognizeSong, what it makes of a response of the route: the 204 return,
\* a body with a title, or a body the branches for ok responses pass over
ClientKind(resp) ==
  IF resp.status = 204 THEN "204"
  ELSE IF resp.status = 200 /\ resp.body = "title" THEN "full"
  ELSE IF resp.status = 200 /\ resp.body = "error" THEN "apiError"
  ELSE "noResult"

RouteCalls ==
  {Pending("POST /api/recognize", [rev |-> r, req |-> q]) :
     r \in RouteRevisions, q \in Requests}

\* the calls examined
PendingCalls ==
  CanDecodeAudioCalls \cup NormalizeAudioVolumeCalls \cup ConvertToWavCalls
    \cup AudioBufferToWavBlobCalls \cup EncodeSampleCalls \cup MediaRecorderCalls
    \cup RouteCalls

sessionVars == <<variant, isRecording, isRecognizing, result, error, committedRecognizing,
                 resultFound, isRecognizingRef, timeoutRef, streamRef, mediaRecorderRef,
                 armed, acq, track, recorder, flush, closureResult, nStarts, nSegs, nReqs,
                 pre, fetching, parsing, recs, navigated, stoppedEarly, handoff, lastEvent>>

IsPending(fn) == call.phase = "pending" /\ call.fn = fn
IsSettled(fn) == call.phase = "done" /\ call.fn = fn

RunCanDecodeAudio ==
  /\ IsPending("canDecodeAudio")
  /\ call' = Settled(call, CanDecodeAudioCall(call.args.blob, call.args.env))
  /\ UNCHANGED sessionVars

RunConvertToWav ==
  /\ IsPending("convertToWav")
  /\ call' = Settled(call, ConvertToWavCall(call.args.blob, call.args.env))
  /\ UNCHANGED sessionVars

\* convertToWav called on the blob an earlier call of it returned
RunConvertToWavAgain ==
  /\ IsSettled("convertToWav")
  /\ \E e \in Envs :
       call' = [fn |-> "convertToWav again", phase |-> "done",
                args |-> [blob |-> call.out.value.blob, env |-> e,
                          first |-> call.out.value.how],
                out |-> ConvertToWavCall(call.out.value.blob, e)]
  /\ UNCHANGED sessionVars

RunAudioBufferToWavBlob ==
  /\ IsPending("audioBufferToWavBlob")
  /\ call' = Settled(call, AudioBufferToWavFile(call.args.buffer))
  /\ UNCHANGED sessionVars

\* the body of the interleave loop, for two samples
RunEncodeSamples ==
  /\ IsPending("encodeSamples")
  /\ call' = Settled(call, [x |-> EncodeSample(call.args.x),
                            y |-> EncodeSample(call.args.y)])
  /\ UNCHANGED sessionVars

\* handleStartRecording from the choice of mimeType to new MediaRecorder
RunNewMediaRecorder ==
  /\ IsPending("new MediaRecorder")
  /\ call' = Settled(call, NewMediaRecorder(call.args.supported,
                                             MediaRecorderOptions(call.args.supported)))
  /\ UNCHANGED sessionVars

RunRoutePOST ==
  /\ IsPending("POST /api/recognize")
  /\ call' = Settled(call, RoutePOST(call.args.rev, call.args.req))
  /\ UNCHANGED sessionVars

RunNormalizeAudioVolume ==
  /\ IsPending("normalizeAudioVolume")
  /\ call' = SettledWithGraph(call,
                NormalizeAudioVolumeCall(call.args.blob, call.args.gain,
                                         call.args.forHumming, call.args.env),
                NormalizeAudioVolumeGraph(call.args.blob, call.args.gain,
                                          call.args.forHumming, call.args.env))
  /\ UNCHANGED sessionVars

\* ---- helpers over the bags of suspended callbacks
RECURSIVE SumOver(_, _)
SumOver(f, S) == IF S = {} THEN 0
                 ELSE LET x == CHOOSE y \in S : TRUE IN f[x] + SumOver(f, S \ {x})

Outstanding == SumOver(fetching, Ids) + SumOver(parsing, Ids)

Inc(f, k) == [f EXCEPT ![k] = @ + 1]
Dec(f, k) == [f EXCEPT ![k] = @ - 1]

InitSession(v) ==
  /\ variant = v
  /\ isRecording = FALSE
  /\ isRecognizing = FALSE
  /\ result = FALSE
  /\ error = "none"
  /\ committedRecognizing = FALSE
  /\ resultFound = FALSE
  /\ isRecognizingRef = FALSE
  /\ timeoutRef = NoRef
  /\ streamRef = NoRef
  /\ mediaRecorderRef = NoRef
  /\ armed = {}
  /\ acq = [k \in Ids |-> "none"]
  /\ track = [k \in Ids |-> "none"]
  /\ recorder = [k \in Ids |-> "none"]
  /\ flush = {}
  /\ closureResult = [k \in Ids |-> FALSE]
  /\ nStarts = 0
  /\ nSegs = 0
  /\ nReqs = 0
  /\ pre = [k \in Ids |-> 0]
  /\ fetching = [k \in Ids |-> 0]
  /\ parsing = [k \in Ids |-> 0]
  /\ recs = [k \in Ids |-> 0]
  /\ navigated = FALSE
  /\ stoppedEarly = FALSE
  /\ handoff = NoHandoff
  /\ lastEvent = "init"

InitWith(v) == InitSession(v) /\ call = NoCall

Init == InitWith("latchRef")

\* ---- guards and branch conditions of the handlers

\* ondataavailable, first check: the callback goes on only when no match is latched
SegmentAdmitted(latch) == ~latch

\* the re-check left out: every preprocessed segment is handed on
SubmitWithoutRecheck(latch) == TRUE

\* ondataavailable, re-check after preprocessing, right before recognizeSong
SubmitRecheck(latch) == ~latch

\* recognizeSong: `if (isRecognizingRef.current || <latch>) return;`
RecognizeGuard(ref, latch) == ~ref /\ ~latch

\* bodies a response can carry, by what the branches of recognizeSong read:
\*   full      ok, title, spotifyId, artists
\*   noArtists ok, title, spotifyId, empty artists
\*   noId      ok, title, artists, no spotifyId
\*   badShape  ok, title, and a field whose use throws after the match branch
\*             was entered (a title that is no string; artists = [null])
\*   apiError  ok, no title, an error field
\*   noResult  a non-success status with a JSON body, or ok with neither
\*   badJson   a body response.json() rejects
Kinds == {"full", "noArtists", "noId", "badShape", "apiError", "noResult", "badJson"}

\* the latch set only in the branch that navigates
LatchesOnlyWhenLinked(v, kind) == kind \in {"full", "noArtists"}

\* the branches that set the latch
Latches(v, kind) ==
  IF v = "latchRef"
  THEN kind \in {"full", "noArtists", "noId", "badShape", "apiError"}
  ELSE kind \in {"full", "noArtists", "noId", "badShape"}

\* the error a branch of recognizeSong sets itself
BranchError(v, kind, err) ==
  IF v = "latchRef" /\ kind = "noId" THEN "nolink"
  ELSE IF v = "latchRef" /\ kind = "apiError" THEN "api"
  ELSE err

\* a response without a success status thrown into the catch block as well
ThrowsOnNonSuccess(kind) == kind \in {"badShape", "badJson", "reject", "noResult"}

\* control reaches the catch block
Throws(kind) == kind \in {"badShape", "badJson", "reject"}

\* the catch block setting the error without looking at the latch
CatchAlwaysShowsError(v, latch, closRes) == TRUE

\* catch block: is 'An error occurred during recognition.' set
CatchShowsError(v, latch, closRes) ==
  IF v = "stateRef" THEN ~closRes ELSE ~latch

\* a finally block that leaves the in-flight flag as it is
FinallyLeavesFlag(v, latch) == FALSE

\* finally block: are isRecognizing and isRecognizingRef cleared
FinallyClears(v, latch) ==
  IF v = "latchRef" THEN ~latch ELSE TRUE

\* timeout callback: does it go past its guard
TimeoutProceeds(v, latch, closRes) ==
  IF v = "resultRef" THEN ~latch ELSE ~closRes

\* match branch awaits fetchRecommendations
AwaitsRecs(v, kind) == v # "latchRef" /\ kind \in {"full", "noId"}

\* the redirect issued for every response with a title
NavigatesOnAnyTitle(v, kind) == v = "latchRef" /\ kind \in {"full", "noArtists", "noId"}

\* match branch calls router.push
Navigates(v, kind) == v = "latchRef" /\ kind \in {"full", "noArtists"}

\* the button: onClick and disabled
ButtonEnabled(v, recognizing) == v = "latchRef" => ~recognizing

\* the countdown of an earlier acquisition left running when a new one is set
ArmWithoutClear(a, ref, k) == a \cup {k}

\* `if (timeoutRef.current) clearTimeout(timeoutRef.current)` and then
\* `timeoutRef.current = setTimeout(...)`: the timers armed afterwards
ArmCountdown(a, ref, k) == (a \ {ref}) \cup {k}

\* handleStopRecording, given the timers still armed when it is called
HandleStopRecording(a) ==
  /\ armed' = a \ {timeoutRef}
  /\ timeoutRef' = NoRef
  /\ IF mediaRecorderRef # NoRef /\ recorder[mediaRecorderRef] = "recording"
     THEN /\ recorder' = [recorder EXCEPT ![mediaRecorderRef] = "inactive"]
          /\ flush' = flush \cup {mediaRecorderRef}
     ELSE UNCHANGED <<recorder, flush>>
  /\ track' = IF streamRef # NoRef THEN [track EXCEPT ![streamRef] = "stopped"] ELSE track
  /\ isRecording' = FALSE
  /\ isRecognizing' = FALSE

\* ---- actions

\* handleStartRecording up to `await getUserMedia`
Start ==
  /\ ~isRecording
  /\ ~navigated
  /\ ButtonEnabled(variant, isRecognizing)
  /\ nStarts < MaxStarts
  /\ nStarts' = nStarts + 1
  /\ acq' = [acq EXCEPT ![nStarts + 1] = "pending"]
  /\ closureResult' = [closureResult EXCEPT ![nStarts + 1] = result]
  /\ result' = FALSE
  /\ error' = "none"
  /\ isRecognizing' = FALSE
  /\ isRecognizingRef' = FALSE
  /\ resultFound' = FALSE
  /\ stoppedEarly' = FALSE
  /\ lastEvent' = "start" /\ handoff' = NoHandoff
  /\ UNCHANGED <<variant, call, isRecording, committedRecognizing, timeoutRef, streamRef,
                 mediaRecorderRef, armed, track, recorder, flush, nSegs, nReqs, pre,
                 fetching, parsing, recs, navigated>>

\* getUserMedia resolves: the rest of the try block of handleStartRecording
AcquireOK(k) ==
  /\ acq[k] = "pending"
  /\ acq' = [acq EXCEPT ![k] = "ok"]
  /\ streamRef' = k
  /\ track' = [track EXCEPT ![k] = "live"]
  /\ mediaRecorderRef' = k
  /\ recorder' = [recorder EXCEPT ![k] = "recording"]
  /\ isRecording' = TRUE
  /\ armed' = ArmCountdown(armed, timeoutRef, k)
  /\ timeoutRef' = k
  /\ lastEvent' = "acquired" /\ handoff' = NoHandoff
  /\ UNCHANGED <<variant, call, isRecognizing, result, error, committedRecognizing, resultFound,
                 isRecognizingRef, flush, closureResult, nStarts, nSegs, nReqs, pre,
                 fetching, parsing, recs, navigated, stoppedEarly>>

\* the countdown set after the try block instead of inside it: a rejected
\* acquisition arms it too
AcquireFailStillArms(k) ==
  /\ acq[k] = "pending"
  /\ acq' = [acq EXCEPT ![k] = "failed"]
  /\ error' = "mic"
  /\ armed' = ArmCountdown(armed, timeoutRef, k)
  /\ timeoutRef' = k
  /\ lastEvent' = "micDenied" /\ handoff' = NoHandoff
  /\ UNCHANGED <<variant, call, isRecording, isRecognizing, result, committedRecognizing,
                 resultFound, isRecognizingRef, streamRef, mediaRecorderRef,
                 track, recorder, flush, closureResult, nStarts, nSegs, nReqs, pre,
                 fetching, parsing, recs, navigated, stoppedEarly>>

\* getUserMedia rejects: the catch block of handleStartRecording
AcquireFail(k) ==
  /\ acq[k] = "pending"
  /\ acq' = [acq EXCEPT ![k] = "failed"]
  /\ error' = "mic"
  /\ lastEvent' = "micDenied" /\ handoff' = NoHandoff
  /\ UNCHANGED <<variant, call, isRecording, isRecognizing, result, committedRecognizing,
                 resultFound, isRecognizingRef, timeoutRef, streamRef, mediaRecorderRef,
                 armed, track, recorder, flush, closureResult, nStarts, nSegs, nReqs, pre,
                 fetching, parsing, recs, navigated, stoppedEarly>>

\* ondataavailable up to its first await: a timeslice segment of a running
\* recorder, or the last segment of a stopped one
SegmentArrives(k, nonEmpty) ==
  /\ recorder[k] = "recording" \/ k \in flush
  /\ nSegs < MaxSegments
  /\ nSegs' = nSegs + 1
  /\ flush' = flush \ {k}
  /\ IF ~SegmentAdmitted(resultFound)
     THEN pre' = pre /\ lastEvent' = "segDiscard" /\ handoff' = NoHandoff
     ELSE IF ~nonEmpty
     THEN pre' = pre /\ lastEvent' = "segEmpty" /\ handoff' = NoHandoff
     ELSE pre' = Inc(pre, k) /\ lastEvent' = "segment" /\ handoff' = NoHandoff
  /\ UNCHANGED <<variant, call, isRecording, isRecognizing, result, error, committedRecognizing,
                 resultFound, isRecognizingRef, timeoutRef, streamRef, mediaRecorderRef,
                 armed, acq, track, recorder, closureResult, nStarts, nReqs,
                 fetching, parsing, recs, navigated, stoppedEarly>>

\* the re-check after preprocessing, then recognizeSong up to `await fetch`
Handover(k) ==
  /\ pre[k] > 0
  /\ pre' = Dec(pre, k)
  /\ IF ~SubmitRecheck(resultFound)
     THEN /\ lastEvent' = "handoffDropped"
          /\ UNCHANGED <<isRecognizing, isRecognizingRef, fetching, nReqs>>
     ELSE IF ~RecognizeGuard(isRecognizingRef, resultFound)
     THEN /\ lastEvent' = "handoffNoop"
          /\ UNCHANGED <<isRecognizing, isRecognizingRef, fetching, nReqs>>
     ELSE /\ nReqs < MaxRequests
          /\ nReqs' = nReqs + 1
          /\ isRecognizing' = TRUE
          /\ isRecognizingRef' = TRUE
          /\ fetching' = Inc(fetching, k)
          /\ lastEvent' = "request"
  /\ UNCHANGED <<variant, call, isRecording, result, error, committedRecognizing, resultFound,
                 timeoutRef, streamRef, mediaRecorderRef, armed, acq, track, recorder,
                 flush, closureResult, nStarts, nSegs, parsing, recs, navigated,
                 stoppedEarly>>

\* preprocessing of a segment is over and the segment is handed over; what
\* preprocessing made of the segment is not recorded
PreprocessDone(k) ==
  /\ Handover(k)
  /\ handoff' = NoHandoff

\* the same step, recording what preprocessing made of the segment
PreprocessTraced(k) ==
  /\ Handover(k)
  /\ handoff' \in PreprocessOutcomes

\* recognizeSong from the point where control has the outcome `kind` in hand
\* to its end or its next await
Settle(k, kind) ==
  LET latchNow == resultFound \/ Latches(variant, kind)
      stops == Latches(variant, kind) \/ Throws(kind)
      clears == ~AwaitsRecs(variant, kind) /\ FinallyClears(variant, latchNow)
  IN /\ resultFound' = latchNow
     /\ result' = IF variant # "latchRef" /\ Latches(variant, kind) THEN TRUE ELSE result
     /\ error' = IF Throws(kind) /\ CatchShowsError(variant, latchNow, closureResult[k])
                 THEN "recog"
                 ELSE BranchError(variant, kind, error)
     /\ IF stops
        THEN HandleStopRecording(armed)
        ELSE /\ isRecognizing' = IF clears THEN FALSE ELSE isRecognizing
             /\ UNCHANGED <<armed, timeoutRef, recorder, flush, track, isRecording>>
     /\ isRecognizingRef' = IF clears THEN FALSE ELSE isRecognizingRef
     /\ navigated' = (navigated \/ Navigates(variant, kind))
     /\ recs' = IF AwaitsRecs(variant, kind) THEN Inc(recs, k) ELSE recs
     /\ stoppedEarly' = (stoppedEarly \/ (stops /\ isRecording))
     /\ lastEvent' = kind /\ handoff' = NoHandoff

\* the 204 branch returning without touching the in-flight flag
NoContentKeepsFlag(flag) == flag

\* the in-flight flag (state and ref) after the 204 branch of recognizeSong
NoContentFlag(flag) == FALSE

\* `await fetch` is over: 204, a rejection, or a response whose body is read next
FetchResolves(k, out) ==
  /\ fetching[k] > 0
  /\ fetching' = Dec(fetching, k)
  /\ IF out = "204"
     THEN /\ isRecognizing' = NoContentFlag(isRecognizing)
          /\ isRecognizingRef' = NoContentFlag(isRecognizingRef)
          /\ parsing' = parsing
          /\ lastEvent' = "204" /\ handoff' = NoHandoff
          /\ UNCHANGED <<result, error, resultFound, armed, timeoutRef, recorder, flush,
                         track, isRecording, navigated, recs, stoppedEarly>>
     ELSE IF out = "body"
     THEN /\ parsing' = Inc(parsing, k)
          /\ lastEvent' = "body" /\ handoff' = NoHandoff
          /\ UNCHANGED <<isRecognizing, isRecognizingRef, result, error, resultFound, armed,
                         timeoutRef, recorder, flush, track, isRecording, navigated, recs,
                         stoppedEarly>>
     ELSE /\ parsing' = parsing
          /\ Settle(k, "reject")
  /\ UNCHANGED <<variant, call, committedRecognizing, streamRef, mediaRecorderRef, acq,
                 closureResult, nStarts, nSegs, nReqs, pre>>

\* `await response.json()` is over
JsonResolves(k, kind) ==
  /\ parsing[k] > 0
  /\ parsing' = Dec(parsing, k)
  /\ Settle(k, kind)
  /\ UNCHANGED <<variant, call, committedRecognizing, streamRef, mediaRecorderRef, acq,
                 closureResult, nStarts, nSegs, nReqs, pre, fetching>>

\* `await fetchRecommendations` is over: the finally block
RecsResolves(k) ==
  /\ recs[k] > 0
  /\ recs' = Dec(recs, k)
  /\ isRecognizing' = FALSE
  /\ isRecognizingRef' = FALSE
  /\ lastEvent' = "recsDone" /\ handoff' = NoHandoff
  /\ UNCHANGED <<variant, call, isRecording, result, error, committedRecognizing, resultFound,
                 timeoutRef, streamRef, mediaRecorderRef, armed, acq, track, recorder,
                 flush, closureResult, nStarts, nSegs, nReqs, pre, fetching, parsing,
                 navigated, stoppedEarly>>

\* the setTimeout callback of handleStartRecording runs
Timeout(k) ==
  /\ k \in armed
  /\ IF TimeoutProceeds(variant, resultFound, closureResult[k])
     THEN /\ error' = "nomatch"
          /\ HandleStopRecording(armed \ {k})
          /\ lastEvent' = "timeout" /\ handoff' = NoHandoff
     ELSE /\ armed' = armed \ {k}
          /\ lastEvent' = "timeoutSkipped" /\ handoff' = NoHandoff
          /\ UNCHANGED <<error, timeoutRef, recorder, flush, track, isRecording,
                         isRecognizing>>
  /\ UNCHANGED <<variant, call, result, committedRecognizing, resultFound, isRecognizingRef,
                 streamRef, mediaRecorderRef, acq, closureResult, nStarts, nSegs, nReqs,
                 pre, fetching, parsing, recs, navigated, stoppedEarly>>

\* the user presses the button while it shows stop
ManualStop ==
  /\ isRecording
  /\ ~navigated
  /\ ButtonEnabled(variant, isRecognizing)
  /\ HandleStopRecording(armed)
  /\ stoppedEarly' = TRUE
  /\ lastEvent' = "manualStop" /\ handoff' = NoHandoff
  /\ UNCHANGED <<variant, call, result, error, committedRecognizing, resultFound,
                 isRecognizingRef, streamRef, mediaRecorderRef, acq, closureResult,
                 nStarts, nSegs, nReqs, pre, fetching, parsing, recs, navigated>>

\* useEffect(() => { isRecognizingRef.current = isRecognizing }, [isRecognizing])
SyncEffect ==
  /\ isRecognizing # committedRecognizing
  /\ committedRecognizing' = isRecognizing
  /\ isRecognizingRef' = isRecognizing
  /\ lastEvent' = "effect" /\ handoff' = NoHandoff
  /\ UNCHANGED <<variant, call, isRecording, isRecognizing, result, error, resultFound,
                 timeoutRef, streamRef, mediaRecorderRef, armed, acq, track, recorder,
                 flush, closureResult, nStarts, nSegs, nReqs, pre, fetching, parsing,
                 recs, navigated, stoppedEarly>>

FetchOutcomes == {"204", "body", "reject"}

Next ==
  \/ Start
  \/ \E k \in Ids : AcquireOK(k)
  \/ \E k \in Ids : AcquireFail(k)
  \/ \E k \in Ids, nonEmpty \in BOOLEAN : SegmentArrives(k, nonEmpty)
  \/ \E k \in Ids : PreprocessDone(k)
  \/ \E k \in Ids, out \in FetchOutcomes : FetchResolves(k, out)
  \/ \E k \in Ids, kind \in Kinds : JsonResolves(k, kind)
  \/ \E k \in Ids : Timeout(k)
  \/ ManualStop
  \/ SyncEffect

Spec == Init /\ [][Next]_vars

\* the revisions of src/src/app/page.tsx: the match branch has one more await
NextPage ==
  \/ Next
  \/ \E k \in Ids : RecsResolves(k)

InitPageState == InitWith("stateRef")

SpecPageState == InitPageState /\ [][NextPage]_vars

InitPageRef == InitWith("resultRef")

SpecPageRef == InitPageRef /\ [][NextPage]_vars

\* the first start action
StartOnce == nStarts = 0 /\ Start

\* one session of part_004 with the preprocessing of each segment recorded
NextPipeline ==
  \/ StartOnce
  \/ \E k \in Ids : AcquireOK(k)
  \/ \E k \in Ids : AcquireFail(k)
  \/ \E k \in Ids, nonEmpty \in BOOLEAN : SegmentArrives(k, nonEmpty)
  \/ \E k \in Ids : PreprocessTraced(k)
  \/ \E k \in Ids, out \in FetchOutcomes : FetchResolves(k, out)
  \/ \E k \in Ids, kind \in Kinds : JsonResolves(k, kind)
  \/ \E k \in Ids : Timeout(k)
  \/ ManualStop
  \/ SyncEffect

InitPipeline == InitWith("latchRef")

SpecPipeline == InitPipeline /\ [][NextPipeline]_vars

\* library functions called on their own, outside a session
NextAudio ==
  \/ RunCanDecodeAudio
  \/ RunNormalizeAudioVolume
  \/ RunConvertToWav
  \/ RunConvertToWavAgain
  \/ RunAudioBufferToWavBlob
  \/ RunEncodeSamples
  \/ RunNewMediaRecorder
  \/ RunRoutePOST

InitAudio == InitSession("latchRef") /\ call \in PendingCalls

SpecAudio == InitAudio /\ [][NextAudio]_vars

\* one session in which every fetch and every body read that is pending
\* settles, and the effect runs after each render that changed isRecognizing
SpecPipelineLive ==
  /\ InitPipeline
  /\ [][NextPipeline]_vars
  /\ WF_vars(\E k \in Ids, out \in FetchOutcomes : FetchResolves(k, out))
  /\ WF_vars(\E k \in Ids, kind \in Kinds : JsonResolves(k, kind))
  /\ WF_vars(SyncEffect)

TypeOK ==
  /\ variant \in Variants
  /\ error \in Errors
  /\ timeoutRef \in Ids \cup {NoRef}
  /\ armed \subseteq Ids
  /\ nReqs \in 0..MaxRequests
  /\ nSegs \in 0..MaxSegments

\* ---- notions the claims use

\* a recorder is capturing
AnyRecording == \E k \in Ids : recorder[k] = "recording"

\* a track of an acquired stream is live
AnyLiveTrack == \E k \in Ids : track[k] = "live"

\* a getUserMedia call has not settled yet
AnyPendingAcquire == \E k \in Ids : acq[k] = "pending"

\* C1: at most one request to the recognition endpoint is outstanding at any
\* time, whatever the interleaving of segments, preprocessing completions,
\* responses, countdown expiry and stop actions.
\* Stated for the session in progress: the requests issued by the recorder of
\* the latest start action.
C1_SingleFlight == \A k \in Ids : nStarts = k => fetching[k] + parsing[k] <= 1

\* outcomes that are neither a match nor an API error message
NonMatchOutcomes == {"204", "noResult", "reject", "badJson"}

\* outcomes read as a match: a success status with a title
MatchOutcomes == {"full", "noArtists", "noId", "badShape"}

\* C2: once the latch is set no recognizeSong call of the session contacts the
\* endpoint (a request is never the step that led to a latched state), and
\* capture is stopped: no recorder is recording.
C2_LatchedNoSubmitAndStopped ==
  /\ lastEvent = "request" => ~resultFound
  /\ resultFound => ~AnyRecording

\* C3: the latch is monotonic within a session: a step that leaves a latched
\* state either keeps the latch or is the next start action, and an outcome
\* other than a match that completes while the latch is set keeps the latch
\* and does not change the error shown.
C3_LatchMonotonic ==
  [][resultFound =>
       /\ resultFound' \/ lastEvent' = "start"
       /\ lastEvent' \in NonMatchOutcomes => resultFound' /\ error' = error]_vars

\* a non-match outcome has completed while the latch was set and the latch is
\* still set
C3_Witness == resultFound /\ lastEvent \in NonMatchOutcomes

\* C4: the step in which a response is read as a match is the step that sets
\* the latch: the state right after the decision already has the latch set,
\* so no other callback runs in between.
C4_LatchWithDecision == lastEvent \in MatchOutcomes => resultFound

\* a match was just decided while another segment callback is suspended in
\* preprocessing
C4_Witness == lastEvent \in MatchOutcomes /\ resultFound /\ \E k \in Ids : pre[k] > 0

\* C5: a segment callback enters preprocessing only with the latch unset, and
\* recognizeSong is called for a preprocessed segment only with the latch
\* unset (neither step changes the latch).
C5_LatchCheckedBeforeWork ==
  lastEvent \in {"segment", "request", "handoffNoop"} => ~resultFound

\* a segment whose preprocessing finished under a set latch was dropped
C5_Witness == lastEvent = "handoffDropped" /\ resultFound

\* C7: in Idle (not recording, no microphone acquisition pending) no acquired
\* stream has a live track and no recorder is recording.
C7_IdleReleasesEverything ==
  (~isRecording /\ ~AnyPendingAcquire) => (~AnyLiveTrack /\ ~AnyRecording)

\* C8: when the countdown fires with the latch unset, the no-match message is
\* shown, capture is stopped (not recording, no recorder recording, no live
\* track) and the latch is still unset.
C8_TimeoutStopsCapture ==
  (lastEvent = "timeout" /\ ~resultFound) =>
     (error = "nomatch" /\ ~isRecording /\ ~AnyRecording /\ ~AnyLiveTrack)

\* C9: the countdown never takes effect (message set, capture stopped) in a
\* session whose latch is set.  Stated for the page while it is shown (no
\* router.push yet), where the message is visible.
C9_NoTimeoutWhenLatched == (lastEvent = "timeout" /\ ~navigated) => ~resultFound

\* C10: once recording was stopped by something else than the countdown, the
\* timeout callback does not run for that session.
C10_NoTimeoutAfterStop == lastEvent \in {"timeout", "timeoutSkipped"} => ~stoppedEarly

\* C6: an error outcome (the request rejected, a body that is no JSON) that
\* completes while the latch is set leaves the error shown and the result
\* as they were.
C6_LateErrorSwallowed ==
  [][(resultFound /\ lastEvent' \in {"reject", "badJson"}) =>
        (error' = error /\ result' = result)]_vars

\* the state handleStopRecording leaves: the countdown cleared, the current
\* recorder not recording, the current stream's track stopped, both flags off
StopPathRan ==
  /\ timeoutRef' = NoRef
  /\ timeoutRef \notin armed'
  /\ mediaRecorderRef # NoRef => recorder'[mediaRecorderRef] # "recording"
  /\ streamRef # NoRef => track'[streamRef] = "stopped"
  /\ ~isRecording'
  /\ ~isRecognizing'

\* C11: at most one countdown is pending at any time; a countdown is armed
\* only by the step in which its own acquisition resolves (Recording entry),
\* so never by a segment arrival or a recognition response; and the step in
\* which it fires leaves what manual stop leaves, plus the no-match message.
C11_SingleCountdown ==
  [][/\ Cardinality(armed') <= 1
     /\ \A k \in Ids : (k \in armed' /\ k \notin armed) =>
            (lastEvent' = "acquired" /\ acq[k] = "pending" /\ acq'[k] = "ok")
     /\ lastEvent' \in {"timeout", "manualStop"} => StopPathRan
     /\ lastEvent' = "timeout" => (error' = "nomatch" /\ armed' = {})]_vars

\* the countdown fired after a segment was submitted and answered
C11_Witness == lastEvent = "timeout" /\ error = "nomatch" /\ nReqs > 0 /\ Outstanding = 0

\* C12: a failed microphone acquisition starts nothing: the step shows the
\* microphone-denied error and leaves the recording flag, every recorder and
\* track and the countdown as they were; the failed invocation never gets a
\* recorder, a stream or a countdown and is never retried (no acquisition
\* becomes pending in that step, a failed one stays failed); and while every
\* acquisition so far has failed, nothing records and no countdown is armed.
C12_MicFailureStartsNothing ==
  [][/\ lastEvent' = "micDenied" =>
          /\ error' = "mic"
          /\ isRecording' = isRecording /\ recorder' = recorder /\ track' = track
          /\ armed' = armed /\ timeoutRef' = timeoutRef /\ nStarts' = nStarts
          /\ \A j \in Ids : acq'[j] = "pending" => acq[j] = "pending"
     /\ \A k \in Ids : acq[k] = "failed" => acq'[k] = "failed"
     /\ \A k \in Ids : acq'[k] = "failed" =>
            (recorder'[k] = "none" /\ track'[k] = "none" /\ k \notin armed')
     /\ (\A k \in Ids : acq'[k] \in {"none", "failed"}) =>
            (~isRecording' /\ ~(\E k \in Ids : recorder'[k] = "recording") /\ armed' = {})]_vars

\* the acquisition of the only start so far was just rejected
C12_Witness ==
  /\ lastEvent = "micDenied" /\ error = "mic"
  /\ nStarts = 1 /\ acq[1] = "failed"
  /\ ~isRecording /\ armed = {}

\* C13: a failed recognition response (the request rejected, a body that is
\* no JSON) that completes while no match is latched does not end the
\* session: the recording flag, the recorders and the tracks stay as they
\* were, so the next segment can still be submitted.
C13_FailedKeepsSession ==
  [][(~resultFound /\ lastEvent' \in {"reject", "badJson"}) =>
        (isRecording' = isRecording /\ recorder' = recorder /\ track' = track)]_vars

\* the steps in which a preprocessed segment reaches the hand-over to
\* recognizeSong
HandoffEvents == {"request", "handoffNoop", "handoffDropped"}

\* C14: the step in which a 204 answer is handled leaves the recording flag,
\* the recorders, the tracks, the countdown, the latch and the error as they
\* were and clears the in-flight flag (state and ref); a segment that
\* finishes preprocessing right after it, the latch unset, is submitted; and
\* a segment is refused by the in-flight guard only while a request is
\* really outstanding, so the flag cleared by the 204 cannot block the next
\* segment.
C14_NoContentContinues ==
  [][/\ lastEvent' = "204" =>
          /\ isRecording' = isRecording /\ recorder' = recorder /\ track' = track
          /\ armed' = armed /\ timeoutRef' = timeoutRef
          /\ resultFound' = resultFound /\ error' = error /\ result' = result
          /\ ~isRecognizing' /\ ~isRecognizingRef'
     /\ (lastEvent = "204" /\ ~resultFound /\ lastEvent' \in HandoffEvents) =>
            lastEvent' = "request"
     /\ lastEvent' = "handoffNoop" => Outstanding > 0]_vars

\* a 204 was just handled in a session that is recording, unlatched, without
\* an error, its countdown pending
C14_Witness ==
  /\ lastEvent = "204"
  /\ isRecording /\ ~resultFound /\ error = "none" /\ armed # {}
  /\ ~isRecognizingRef

\* C15: the step that handles a success response with a title but no
\* external identifier sets the latch and runs the stop path, as the step
\* that handles a full match does; it does not navigate, the full match does.
C15_DegradedMatchLatches ==
  [][/\ lastEvent' \in {"full", "noArtists", "noId"} => (resultFound' /\ StopPathRan)
     /\ lastEvent' = "noId" => navigated' = navigated
     /\ lastEvent' \in {"full", "noArtists"} => navigated']_vars

\* a title without identifier was just handled: latched, not recording, the
\* page still shown
C15_Witness ==
  /\ lastEvent = "noId"
  /\ resultFound /\ ~isRecording /\ ~navigated /\ armed = {}

\* C16: a stop (manual or by the countdown) leaves the segments being
\* preprocessed and the requests in flight as they are, and an outcome of a
\* request that completes while capture is stopped (not recording, no
\* acquisition pending) is discarded: it changes neither the latch, nor the
\* navigation, nor the result, nor the error.
C16_LateResultsDiscarded ==
  [][/\ lastEvent' \in {"manualStop", "timeout"} =>
          (pre' = pre /\ fetching' = fetching /\ parsing' = parsing)
     /\ (~isRecording /\ ~AnyPendingAcquire /\ lastEvent' \in Kinds \cup {"reject"}) =>
          /\ resultFound' = resultFound /\ navigated' = navigated
          /\ result' = result /\ error' = error]_vars

StaysRecordingOn204 ==
  (lastEvent' = "204" /\ isRecording /\ ~resultFound) =>
     (isRecording' /\ ~resultFound' /\ recorder' = recorder /\ track' = track)

\* C18 as claimed: a WAVE-typed segment is reported decodable, goes to the
\* normalizer, which applies the music gain 2.5 and yields a WAVE blob; a 204
\* leaves the session recording and unlatched.
C18_WaveSegmentGetsGain ==
  [][/\ (lastEvent' \in HandoffEvents /\ handoff'.in.type = WAV) =>
          /\ handoff'.canDecode /\ handoff'.stage = "normalizer"
          /\ handoff'.out.gain = VOLUME_BOOST_MUSIC
          /\ handoff'.out.blob.type = WAV
     /\ StaysRecordingOn204]_vars

\* C18 as amended: a WAVE-typed segment is reported decodable, goes to the
\* normalizer (not the converter), which returns it as it is, no gain
\* applied; that blob is handed over; a 204 leaves the session recording and
\* unlatched.
C18_WaveSegmentPassedAsIs ==
  [][/\ (lastEvent' \in HandoffEvents /\ handoff'.in.type = WAV) =>
          /\ handoff'.canDecode /\ handoff'.stage = "normalizer"
          /\ handoff'.out.how = "same" /\ handoff'.out.blob = handoff'.in
          /\ handoff'.out.gain = 0 /\ handoff'.out.failure = "none"
     /\ StaysRecordingOn204]_vars

\* a WAVE-typed segment was just posted as it came
C18_Witness ==
  /\ lastEvent = "request" /\ isRecording
  /\ handoff.in.type = WAV /\ handoff.stage = "normalizer"
  /\ handoff.out.blob = handoff.in

\* the hand-over of a preprocessed segment touches neither the recording
\* flag, nor the latch, nor the countdown, nor the stream and recorder, nor
\* the error
HandoverLeavesSession ==
  /\ isRecording' = isRecording /\ resultFound' = resultFound
  /\ armed' = armed /\ timeoutRef' = timeoutRef
  /\ streamRef' = streamRef /\ mediaRecorderRef' = mediaRecorderRef
  /\ track' = track /\ recorder' = recorder
  /\ error' = error /\ result' = result

\* C19 as claimed: whatever preprocessing does, the hand-over leaves the
\* session state as it was, and when the stage called for the segment met a
\* failure, the blob handed over is the original segment.
C19_FailureSubmitsOriginal ==
  [][lastEvent' \in HandoffEvents =>
        /\ HandoverLeavesSession
        /\ handoff'.out.failure # "none" => handoff'.out.blob = handoff'.in]_vars

\* C19 as amended: the hand-over leaves the session state as it was; a
\* segment the prober does not report decodable goes to the converter; a
\* failure in the normalizer, or a converter that cannot read the bytes,
\* passes the original segment on; a converter whose decode fails passes on
\* the original bytes behind a WAVE header.
C19_FailureFallsBack ==
  [][lastEvent' \in HandoffEvents =>
        /\ HandoverLeavesSession
        /\ ~handoff'.canDecode => handoff'.stage = "converter"
        /\ (handoff'.stage = "normalizer" /\ handoff'.out.failure # "none") =>
              handoff'.out.blob = handoff'.in
        /\ (handoff'.stage = "converter" /\ handoff'.out.failure \in {"read", "empty"}) =>
              handoff'.out.blob = handoff'.in
        /\ (handoff'.stage = "converter" /\ handoff'.out.failure = "decode") =>
              handoff'.out.blob = Blob(WAV, WavHeaderBytes + handoff'.in.size)]_vars

\* a segment whose decode failed in the normalizer was just posted as it came
C19_Witness ==
  /\ lastEvent = "request" /\ isRecording /\ error = "none"
  /\ handoff.stage = "normalizer" /\ handoff.out.failure = "decode"
  /\ handoff.out.blob = handoff.in

\* C20: the blob handed to recognizeSong is never empty; every value
\* preprocessing can give for a non-empty segment has size > 0; and the
\* arrival of an empty segment starts no preprocessing and no request.
C20_SubmittedBlobNonEmpty ==
  [][/\ lastEvent' \in {"request", "handoffNoop"} =>
          (handoff'.in.size > 0 /\ handoff'.out.blob.size > 0)
     /\ \A o \in PreprocessOutcomes : o.out.blob.size > 0
     /\ lastEvent' = "segEmpty" => (pre' = pre /\ fetching' = fetching /\ nReqs' = nReqs)]_vars

\* a re-encoded segment was just posted
C20_Witness ==
  /\ lastEvent = "request"
  /\ handoff.out.how = "reencoded" /\ handoff.out.blob.size > 0

\* ---- library functions (audioUtils)

\* C21: canDecodeAudio never throws; for a WAVE-typed blob it returns true
\* without calling decodeAudioData; for any other blob it returns true exactly
\* when decodeAudioData resolved, so false for an empty buffer, for bytes that
\* cannot be read and for a rejected decode.
C21_ProberTotal ==
  IsSettled("canDecodeAudio") =>
    LET blob == call.args.blob
        out == call.out
    IN /\ ~out.threw
       /\ out.value \in BOOLEAN
       /\ blob.type = WAV => out.value /\ out.decode = "none"
       /\ blob.type # WAV => (out.value <=> out.decode = "ok")
       /\ blob.type # WAV /\ blob.size = 0 => ~out.value /\ out.decode = "none"
       /\ out.decode = "ok" <=>
            blob.type # WAV /\ blob.size > 0 /\ call.args.env.readable
              /\ call.args.env.probeDecodes
       /\ out.value = CanDecodeAudio(blob, call.args.env)

\* a decode was attempted and rejected, and the call returned false
C21_Witness ==
  /\ IsSettled("canDecodeAudio")
  /\ call.out.decode = "failed"
  /\ ~call.out.threw /\ ~call.out.value

\* C22: every AudioContext canDecodeAudio opened is closed when the call
\* returns.
C22_ProberClosesContext ==
  IsSettled("canDecodeAudio") => call.out.closes = call.out.opened

\* C23: every AudioContext normalizeAudioVolume opened has been closed, by
\* exactly one close(), when the call returns.
C23_NormalizerClosesContext ==
  IsSettled("normalizeAudioVolume") => call.out.closes = call.out.opened

\* rendering threw after the context was opened, and the context is closed
C23_Witness ==
  /\ IsSettled("normalizeAudioVolume")
  /\ ~call.out.threw /\ call.out.value.failure = "render"
  /\ call.out.opened = 1 /\ call.out.closes = 1

\* C24: normalizeAudioVolume never throws; when decodeAudioData rejects, and
\* on every other failure, it returns the blob passed in; what it returns is
\* either that blob or the encoding of a fully rendered buffer.
C24_NormalizerFallsBack ==
  IsSettled("normalizeAudioVolume") =>
    LET a == call.args
        out == call.out
    IN /\ ~out.threw
       /\ out.decode = "failed" =>
            out.value = Result(a.blob, "same", 0, "decode")
       /\ out.value.failure # "none" =>
            out.value.blob = a.blob /\ out.value.how = "same" /\ out.value.gain = 0
       /\ out.value.how \in {"same", "rendered"}
       /\ out.value.how = "rendered" =>
            /\ out.value.failure = "none" /\ out.decode = "ok" /\ a.env.renders
            /\ out.value.blob = AudioBufferToWavBlob(a.env.frames, a.env.channels)
       /\ out.value = NormalizeAudioVolume(a.blob, a.gain, a.forHumming, a.env)

\* decodeAudioData rejected for a non-empty blob, and the call returned it
C24_Witness ==
  /\ IsSettled("normalizeAudioVolume")
  /\ call.out.decode = "failed" /\ call.args.blob.size > 0
  /\ ~call.out.threw /\ call.out.value.blob = call.args.blob

C26_ConverterIdempotent ==
  /\ IsSettled("convertToWav") /\ call.args.blob.type = WAV =>
       /\ ~call.out.threw
       /\ call.out.value = Result(call.args.blob, "same", 0, "none")
       /\ call.out.file = NoFile
  /\ IsSettled("convertToWav again") /\ call.args.blob.type = WAV =>
       /\ ~call.out.threw
       /\ call.out.value = Result(call.args.blob, "same", 0, "none")
       /\ call.out.file = NoFile

\* the second call was given the wrapped bytes of the first, on a platform
\* that would have decoded them
C26_Witness ==
  /\ IsSettled("convertToWav again")
  /\ call.args.first = "wrapped" /\ call.args.blob.type = WAV
  /\ call.args.env.readable /\ call.args.env.convDecodes
  /\ call.out.value.blob = call.args.blob

\* C27: for a blob that is not WAVE-typed convertToWav returns the encoder's
\* blob when decodeAudioData resolved; when it rejected, a WAVE-typed blob of
\* 44 + len bytes whose header declares PCM, one channel, 44100 Hz, 16 bits
\* and a data chunk of len bytes, followed by the len bytes of the input;
\* and for an empty buffer the blob passed in.
C27_ConverterTiers ==
  IsSettled("convertToWav") /\ call.args.blob.type # WAV =>
    LET blob == call.args.blob
        env == call.args.env
        out == call.out
    IN /\ ~out.threw
       /\ out.decode = "ok" =>
            /\ out.value = Result(AudioBufferToWavBlob(env.frames, env.channels),
                                  "reencoded", 0, "none")
            /\ out.file = EncodedFile(env.frames, env.channels)
       /\ out.decode = "failed" =>
            /\ blob.size > 0
            /\ out.value.how = "wrapped"
            /\ out.value.blob = Blob(WAV, 44 + blob.size)
            /\ out.file.header[20] = 1
            /\ out.file.header[22] = 1
            /\ out.file.header[24] = 44100
            /\ out.file.header[34] = 16
            /\ out.file.header[40] = blob.size
            /\ out.file.payload = [of |-> "rawAudioData", at |-> 44, bytes |-> blob.size]
       /\ blob.size = 0 => out.value.blob = blob /\ out.value.how = "same"
       /\ out.decode = "ok" <=> env.readable /\ blob.size > 0 /\ env.convDecodes
       /\ out.decode = "failed" <=> env.readable /\ blob.size > 0 /\ ~env.convDecodes
       /\ out.value = ConvertToWav(blob, env)

\* decodeAudioData rejected for a non-empty blob and the bytes were wrapped
C27_Witness ==
  /\ IsSettled("convertToWav")
  /\ call.args.blob.type # WAV /\ call.args.blob.size > 0
  /\ call.out.decode = "failed" /\ call.out.value.how = "wrapped"
  /\ call.out.file.made = "createMinimalWav"

\* C28: for a buffer of N frames, C channels and rate R the encoder returns
\* 44 + N*C*2 bytes; format tag 1 is at offset 20, C at 22, R at 24, the byte
\* rate R*C*2 at 28, the block align C*2 at 32 and 16 bits per sample at 34;
\* the sample of frame f, channel c is written at offset 44 + 2*(f*C + c),
\* and nothing else is written after the header.
C28_EncoderLayout ==
  IsSettled("audioBufferToWavBlob") =>
    LET N == call.args.buffer.frames
        C == call.args.buffer.channels
        R == call.args.buffer.sampleRate
        out == call.out
    IN /\ out.blob = Blob(WAV, 44 + N * C * 2)
       /\ {20, 22, 24, 28, 32, 34} \subseteq DOMAIN out.header
       /\ out.header[20] = 1
       /\ out.header[22] = C
       /\ out.header[24] = R
       /\ out.header[28] = R * C * 2
       /\ out.header[32] = C * 2
       /\ out.header[34] = 16
       /\ \A f \in 0..(N - 1), c \in 0..(C - 1) :
            [at |-> 44 + 2 * (f * C + c), frame |-> f, channel |-> c] \in out.samples
       /\ Cardinality(out.samples) = N * C

\* two frames of two channels were encoded
C28_Witness ==
  /\ IsSettled("audioBufferToWavBlob")
  /\ call.args.buffer.frames >= 2 /\ call.args.buffer.channels >= 2
  /\ [at |-> 50, frame |-> 1, channel |-> 1] \in call.out.samples

\* C29: the value written for a sample lies in -32768..32767 whatever the
\* sample; a sample of -1 or less is written as -32768, a sample of 1 or more
\* as 32767, and of two samples the smaller is never written as the larger
\* value.
C29_SampleClamped ==
  IsSettled("encodeSamples") =>
    LET x == call.args.x
        y == call.args.y
        out == call.out
    IN /\ out.x \in -32768..32767
       /\ ~x.nan /\ x.num <= -SampleUnit => out.x = -32768
       /\ ~x.nan /\ x.num >= SampleUnit => out.x = 32767
       /\ ~x.nan /\ ~y.nan /\ x.num <= y.num => out.x <= out.y

\* a sample above 1 and a sample below -1 were written
C29_Witness ==
  /\ IsSettled("encodeSamples")
  /\ ~call.args.x.nan /\ call.args.x.num < -SampleUnit
  /\ ~call.args.y.nan /\ call.args.y.num > SampleUnit
  /\ call.out.x = -32768 /\ call.out.y = 32767

\* C30: the recorder is always created; its type is audio/wav whenever that
\* is supported; otherwise the first supported entry of the list; and when
\* no entry is supported it is created without a mimeType option, on the
\* browser's default.
C30_RecorderMimeType ==
  IsSettled("new MediaRecorder") =>
    LET S == call.args.supported
        out == call.out
        listed == {i \in 1..Len(MimeTypes) : MimeTypes[i] \in S}
    IN /\ out.created
       /\ WAV \in S => out.options.given /\ out.mimeType = WAV
       /\ WAV \notin S /\ listed # {} =>
            /\ out.options.given
            /\ \E i \in listed : /\ out.mimeType = MimeTypes[i]
                                  /\ \A j \in listed : i <= j
       /\ listed = {} => ~out.options.given /\ out.mimeType = "default"

\* audio/wav and an entry ahead of it on the list are both supported
C30_Witness ==
  /\ IsSettled("new MediaRecorder")
  /\ {WAV, "audio/webm"} \subseteq call.args.supported
  /\ call.out.created /\ call.out.mimeType = WAV

\* C31: the graph normalizeAudioVolume renders is, in humming mode, source ->
\* gain -> low-shelf (1000 Hz, +6 dB) -> high-shelf (3000 Hz, -3 dB) ->
\* destination, each node feeding exactly one other; in music mode source ->
\* gain -> destination, with no filter created; the gain node carries the
\* gain passed in.
C31_RenderGraph ==
  IsSettled("normalizeAudioVolume") /\ call.graph.built =>
    LET g == call.graph
        path == SignalPath("source", g.connects, 5)
    IN /\ g.gain = call.args.gain
       /\ \A c \in g.connects : \A d \in g.connects : c[1] = d[1] => c = d
       /\ call.args.forHumming =>
            /\ path = <<"source", "gainNode", "lowShelf", "highShelf", "destination">>
            /\ g.filters = {[node |-> "lowShelf", type |-> "lowshelf",
                              frequency |-> 1000, gain |-> 6],
                             [node |-> "highShelf", type |-> "highshelf",
                              frequency |-> 3000, gain |-> -3]}
       /\ ~call.args.forHumming =>
            /\ path = <<"source", "gainNode", "destination">>
            /\ g.filters = {}

\* a humming-mode call that rendered, and a graph with both filters
C31_Witness ==
  /\ IsSettled("normalizeAudioVolume")
  /\ call.args.forHumming /\ call.args.gain = VOLUME_BOOST_HUMMING
  /\ call.graph.built /\ call.out.value.how = "rendered"
  /\ Len(SignalPath("source", call.graph.connects, 5)) = 5

\* ---- the recognition route

\* C32: a request with a valid sample that the service cannot match is
\* answered with status 204, and status 200 comes only with a body that
\* carries a title.
C32_NoMatchIsNoContent ==
  IsSettled("POST /api/recognize") =>
    /\ (/\ call.args.req.file
        /\ call.args.req.length = "valid"
        /\ call.args.req.service = "nomatch") => call.out.status = 204
    /\ call.out.status = 200 => call.out.body = "title"

\* ---- behaviours of the session the code does not spell out

\* the session of start k was ended by the countdown (which shows its
\* message) or by the stop button (which shows none), and nothing was latched
EndedUnmatched(k) ==
  /\ recorder[k] = "inactive"
  /\ ~resultFound
  /\ error \in {"nomatch", "none"}

\* C33: once the countdown or the stop button has ended a session without a
\* match, no recognition request is started for it, not even for the segment
\* its recorder delivers on being stopped.
C33_NoRequestAfterEnd ==
  [][\A k \in Ids : fetching'[k] > fetching[k] => ~EndedUnmatched(k)]_vars

\* the step completes a preprocessing, a fetch or a body read that belongs
\* to a start earlier than the latest one
LeftoverStep(k) ==
  /\ k < nStarts
  /\ pre'[k] < pre[k] \/ fetching'[k] < fetching[k] \/ parsing'[k] < parsing[k]

\* C34: what is left over from an earlier session does nothing to the one
\* started after it: it submits no request, does not latch, navigate, stop
\* the capture or change the error shown.
C34_SessionsIsolated ==
  [][\A k \in Ids : LeftoverStep(k) =>
        /\ nReqs' = nReqs
        /\ resultFound' = resultFound
        /\ navigated' = navigated
        /\ recorder' = recorder /\ track' = track /\ isRecording' = isRecording
        /\ error' = error]_vars

\* C35: while a recognition request is outstanding isRecognizingRef is true;
\* no step other than the completion of that request makes it false.
C35_FlagCoversRequest ==
  Outstanding > 0 => isRecognizingRef

\* C36: after a recognition attempt has ended without the latch set (204, a
\* response that matches no branch, an exception) isRecognizingRef becomes
\* false; and a segment handed over while the session records, is not
\* latched and has no request outstanding is submitted.
C36_NoLockout ==
  /\ [](lastEvent \in NonMatchOutcomes /\ ~resultFound => <>(~isRecognizingRef))
  /\ [][(/\ lastEvent' \in HandoffEvents
          /\ isRecording /\ ~resultFound /\ Outstanding = 0) =>
            lastEvent' = "request"]_vars

\* a response that matched no branch was handled, the session still records
\* and the flag is clear
C36_Witness ==
  /\ lastEvent = "noResult"
  /\ isRecording /\ ~resultFound /\ Outstanding = 0
  /\ ~isRecognizingRef /\ ~isRecognizing

\* C37: every response of the route without a success status carries a JSON
\* body and reaches the else branch of recognizeSong; the step that handles
\* such a response changes neither the error shown nor the latch, leaves
\* recorder, tracks and countdown as they are, and, the latch being unset,
\* clears isRecognizing and isRecognizingRef.
C37_NonSuccessIsNoMatchYet ==
  [][lastEvent' = "noResult" =>
        /\ \A rev \in RouteRevisions, q \in Requests :
              RoutePOST(rev, q).status \notin {200, 204} =>
                /\ RoutePOST(rev, q).body = "error"
                /\ ClientKind(RoutePOST(rev, q)) = "noResult"
        /\ error' = error /\ resultFound' = resultFound /\ navigated' = navigated
        /\ isRecording' = isRecording /\ recorder' = recorder /\ track' = track
        /\ armed' = armed /\ timeoutRef' = timeoutRef
        /\ ~resultFound => ~isRecognizing' /\ ~isRecognizingRef']_vars

\* a response without a success status was handled in a recording session
\* that shows no error and whose countdown is pending
C37_Witness ==
  /\ lastEvent = "noResult"
  /\ isRecording /\ error = "none" /\ ~resultFound
  /\ timeoutRef # NoRef /\ timeoutRef \in armed
  /\ ~isRecognizingRef

\* the bodies in which recognizeSong finds a title (`data.title` is truthy)
CarriesTitle(kind) == kind \in {"full", "noArtists", "noId", "badShape"}

\* C38: the latch is set only when a track was identified: the step that sets
\* it handles a response of the session under way, and that response has a
\* success status and a title; a response that carries only an error never
\* sets it.
C38_LatchOnlyOnTitle ==
  [][(resultFound' /\ ~resultFound) =>
        /\ CarriesTitle(lastEvent')
        /\ parsing'[nStarts] < parsing[nStarts]]_vars

\* what handleStopRecording reads and writes, with `threw` for an exception
\* leaving it
StopState ==
  [armed |-> armed, timeoutRef |-> timeoutRef, mediaRecorderRef |-> mediaRecorderRef,
   streamRef |-> streamRef, recorder |-> recorder, flush |-> flush, track |-> track,
   isRecording |-> isRecording, isRecognizing |-> isRecognizing, threw |-> FALSE]

\* stop() called on whatever recorder the ref holds
CallsRecorderStopUnguarded(ref, rec) == ref # NoRef

\* `if (mediaRecorderRef.current && mediaRecorderRef.current.state === 'recording')`
CallsRecorderStop(ref, rec) == ref # NoRef /\ rec[ref] = "recording"

\* MediaRecorder.stop() raises InvalidStateError on a recorder that is not
\* recording
RecorderStopThrows(state) == state # "recording"

\* handleStopRecording as a function of the state it is called in
HandleStopRecordingOn(s) ==
  LET calls == CallsRecorderStop(s.mediaRecorderRef, s.recorder)
      cleared == [s EXCEPT !.armed = s.armed \ {s.timeoutRef}, !.timeoutRef = NoRef]
  IN IF calls /\ RecorderStopThrows(s.recorder[s.mediaRecorderRef])
     THEN [cleared EXCEPT !.threw = TRUE]
     ELSE [cleared EXCEPT
             !.recorder = IF calls THEN [@ EXCEPT ![s.mediaRecorderRef] = "inactive"] ELSE @,
             !.flush = IF calls THEN @ \cup {s.mediaRecorderRef} ELSE @,
             !.track = IF s.streamRef # NoRef THEN [@ EXCEPT ![s.streamRef] = "stopped"]
                       ELSE @,
             !.isRecording = FALSE,
             !.isRecognizing = FALSE]

\* the outcomes after which recognizeSong calls handleStopRecording, and the
\* stop button
CallsStop(e) ==
  \/ e = "manualStop"
  \/ e \in Kinds \cup {"reject"} /\ (Latches(variant, e) \/ Throws(e))

\* C39: handleStopRecording is idempotent. Called in any state, a second call
\* right after the first does not throw and leaves the countdown handle, the
\* timers, the recorder, the tracks and the two flags as the first call left
\* them; and every step in which the program calls it (the stop button, the
\* countdown, a match, the catch path, a match followed by the catch path)
\* ends in a state that a further call leaves alone.
C39_StopIdempotent ==
  [][/\ ~HandleStopRecordingOn(StopState).threw
     /\ HandleStopRecordingOn(HandleStopRecordingOn(StopState))
          = HandleStopRecordingOn(StopState)
     /\ CallsStop(lastEvent') => StopState' = HandleStopRecordingOn(StopState)
     /\ (CallsStop(lastEvent') \/ lastEvent' = "timeout") =>
          HandleStopRecordingOn(StopState') = StopState']_vars

\* a match was followed by the catch path, so handleStopRecording ran twice
\* in one step, on a session that was recording: the recorder is inactive,
\* the tracks are stopped and the countdown handle is cleared
C39_Witness ==
  /\ lastEvent = "badShape"
  /\ stoppedEarly
  /\ mediaRecorderRef # NoRef /\ recorder[mediaRecorderRef] = "inactive"
  /\ streamRef # NoRef /\ track[streamRef] = "stopped"
  /\ timeoutRef = NoRef /\ ~isRecording /\ ~isRecognizing

====
